---- MODULE Spec2Model ----
(***************************************************************************)
(* Model of Testing_and_Validation.py: the Syracuse 2024 roster, the       *)
(* ground truth derived from it, the text extractors, the rubric scorer,   *)
(* SyracuseDataValidator.validate_response and ResultsAnalyzer.            *)
(*                                                                         *)
(* Representation.                                                         *)
(*   - A Python str is a sequence of one-character strings.                *)
(*   - A Python float is an exact decimal [inf, m, e] = m / 10^e with      *)
(*     m not divisible by 10 when e > 0, or the value Inf.  Within the     *)
(*     model's bound on digit runs (MaxExactDigits) float equality and     *)
(*     the comparisons used by the code agree with exact arithmetic; a     *)
(*     run of FloatOverflowDigits or more integer digits converts to inf.  *)
(*   - None is the string "None" where the field otherwise holds a str,    *)
(*     and the record NoneValue where it holds a tagged value.             *)
(*   - A raised exception ends the program: its name is stored in the      *)
(*     variable raised and no action is enabled afterwards.                *)
(***************************************************************************)
EXTENDS Integers, Sequences, FiniteSets, TLC

None == "None"

\* ------------------------------------------------------------------------
\* create_syracuse_2024_dataset: the roster columns
\* ------------------------------------------------------------------------

Player ==
    <<
    <<"M", "e", "a", "g", "h", "a", "n", " ", "T", "y", "r", "r", "e", "l", "l">>,
    <<"O", "l", "i", "v", "i", "a", " ", "A", "d", "a", "m", "s", "o", "n">>,
    <<"E", "m", "m", "a", " ", "W", "a", "r", "d">>,
    <<"S", "a", "m", " ", "S", "w", "a", "r", "t">>,
    <<"P", "a", "y", "t", "o", "n", " ", "R", "o", "w", "l", "e", "y">>,
    <<"M", "a", "d", "d", "y", " ", "B", "a", "x", "t", "e", "r">>,
    <<"S", "a", "v", "a", "n", "n", "a", "h", " ", "S", "w", "e", "i", "t", "z", "e", "r">>,
    <<"E", "m", "m", "a", " ", "M", "a", "d", "n", "i", "c", "k">>,
    <<"J", "o", "d", "y", " ", "C", "e", "r", "u", "l", "l", "o">>,
    <<"G", "r", "a", "c", "e", " ", "B", "r", "i", "t", "t", "o", "n">>,
    <<"K", "e", "n", "d", "a", "l", "l", " ", "R", "o", "s", "e">>,
    <<"K", "a", "c", "i", " ", "B", "e", "n", "o", "i", "t">>,
    <<"S", "l", "o", "a", "n", "e", " ", "C", "l", "a", "r", "k">>,
    <<"K", "a", "t", "i", "e", " ", "G", "o", "o", "d", "a", "l", "e">>,
    <<"M", "a", "c", "k", "e", "n", "z", "i", "e", " ", "R", "i", "c", "h">>,
    <<"V", "i", "c", "t", "o", "r", "i", "a", " ", "R", "e", "i", "d">>,
    <<"R", "y", "a", "n", "n", " ", "B", "a", "n", "k", "s">>,
    <<"H", "a", "l", "l", "i", "e", " ", "S", "i", "m", "p", "k", "i", "n", "s">>,
    <<"M", "c", "K", "e", "n", "z", "i", "e", " ", "O", "l", "e", "e", "n">>,
    <<"R", "u", "b", "y", " ", "H", "n", "a", "t", "k", "o", "w", "i", "a", "k">>,
    <<"S", "y", "d", "n", "e", "y", " ", "P", "i", "r", "r", "e", "c", "a">>,
    <<"C", "a", "r", "l", "i", "e", " ", "D", "e", "s", "i", "m", "o", "n", "e">>,
    <<"A", "l", "l", "y", " ", "Q", "u", "i", "r", "k">>,
    <<"T", "a", "t", "e", " ", "P", "a", "u", "l", "s", "o", "n">>,
    <<"R", "y", "a", "n", " ", "J", "o", "h", "n", "s", "o", "n">>,
    <<"G", "e", "o", "r", "g", "i", "a", " ", "S", "e", "x", "t", "o", "n", "-", "S", "t", "o", "n", "e">>,
    <<"G", "w", "e", "n", "n", "a", " ", "G", "e", "n", "t", "o">>,
    <<"E", "z", "r", "a", " ", "L", "a", "h", "a", "n">>,
    <<"E", "l", "l", "a", " ", "B", "r", "e", "e">>,
    <<"T", "a", "l", "i", "a", " ", "W", "a", "d", "e", "r", "s">>,
    <<"J", "e", "n", "n", "a", " ", "M", "a", "r", "i", "n", "o">>,
    <<"A", "n", "a", " ", "H", "o", "r", "v", "i", "t">>,
    <<"D", "e", "l", "a", "n", "e", "y", " ", "S", "w", "a", "r", "t", "o", "u", "t">>,
    <<"D", "a", "n", "i", "e", "l", "l", "a", " ", "G", "u", "y", "e", "t", "t", "e">>
    >>

Jersey ==
    <<
    22, 22, 23, 2, 19, 22, 21, 22, 17, 19, 7, 22, 9, 31, 10, 7, 4, 22, 21, 22, 6, 9, 5, 1,
    6, 7, 7, 7, 6, 5, 3, 7, 22, 7
    >>

Goals ==
    <<
    70, 58, 44, 29, 23, 30, 24, 14, 11, 6, 8, 1, 1, 0, 0, 0, 0, 0, 0, 0, 0, 0, 0, 0, 0, 0,
    0, 0, 0, 0, 0, 0, 0, 0
    >>

Assists ==
    <<
    32, 25, 37, 18, 15, 6, 9, 13, 3, 4, 1, 0, 0, 1, 1, 0, 1, 1, 0, 0, 0, 0, 0, 0, 0, 0, 0,
    0, 0, 0, 0, 0, 0, 0
    >>

Points ==
    <<
    102, 83, 81, 47, 38, 36, 33, 27, 14, 10, 9, 1, 1, 1, 1, 0, 1, 1, 0, 0, 0, 0, 0, 0, 0, 0,
    0, 0, 0, 0, 0, 0, 0, 0
    >>

Shots ==
    <<
    115, 109, 90, 53, 55, 64, 54, 42, 29, 17, 11, 3, 1, 2, 1, 2, 1, 0, 4, 2, 1, 1, 0, 0, 0,
    0, 0, 0, 0, 0, 0, 0, 0, 0
    >>

Games_Played ==
    <<
    21, 12, 10, 19, 15, 14, 8, 15, 10, 3, 3, 21, 1, 43, 19, 19, 0, 26, 3, 1, 10, 0, 0, 1, 0,
    0, 0, 1, 1, 0, 0, 0, 4, 0
    >>

team_stats ==
    [season_record |-> <<"1", "6", "-", "6">>, total_games |-> 22]

\* ------------------------------------------------------------------------
\* Characters: str.lower(), and the classes \d, \w, \s of the re module
\* ------------------------------------------------------------------------

DigitChars == <<"0", "1", "2", "3", "4", "5", "6", "7", "8", "9">>

UpperChars ==
    <<"A", "B", "C", "D", "E", "F", "G", "H", "I", "J", "K", "L", "M",
      "N", "O", "P", "Q", "R", "S", "T", "U", "V", "W", "X", "Y", "Z">>

LowerChars ==
    <<"a", "b", "c", "d", "e", "f", "g", "h", "i", "j", "k", "l", "m",
      "n", "o", "p", "q", "r", "s", "t", "u", "v", "w", "x", "y", "z">>

Range(s) == {s[i] : i \in DOMAIN s}

IsDigit(c) == c \in Range(DigitChars)

IsWordChar(c) ==
    IsDigit(c) \/ c \in Range(UpperChars) \/ c \in Range(LowerChars) \/ c = "_"

IsSpace(c) == c \in {" ", "\t", "\n", "\r", "\f"}

DigitVal(c) == (CHOOSE i \in DOMAIN DigitChars : DigitChars[i] = c) - 1

LowerChar(c) ==
    IF c \in Range(UpperChars)
    THEN LowerChars[CHOOSE i \in DOMAIN UpperChars : UpperChars[i] = c]
    ELSE c

\* str.lower()
\* faulty variant: no case folding
Lower_Identity(text) == text

Lower(text) == [i \in DOMAIN text |-> LowerChar(text[i])]

\* the Python test  sub in text  on strings
Contains(text, sub) ==
    \E i \in 0..(Len(text) - Len(sub)) :
        \A k \in 1..Len(sub) : text[i + k] = sub[k]

\* str(n) of an int n >= 0, as the f-strings format it
RECURSIVE IntToStr(_)
IntToStr(n) ==
    IF n < 10 THEN <<DigitChars[n + 1]>>
    ELSE IntToStr(n \div 10) \o <<DigitChars[(n % 10) + 1]>>

\* ------------------------------------------------------------------------
\* Numbers: int(token) and float(token)
\* ------------------------------------------------------------------------

\* 10^309 exceeds the largest double, so float() of a token with this many
\* significant integer digits is inf.  Shorter tokens are converted to their
\* exact decimal value: the texts of the model hold tokens of at most 8
\* digits, which a double tells apart, or HugeRun.
FloatOverflowDigits == 310

Min(a, b) == IF a <= b THEN a ELSE b

Max(a, b) == IF a >= b THEN a ELSE b

Inf == [inf |-> TRUE, m |-> 0, e |-> 0]

RECURSIVE Pow10(_)
Pow10(n) == IF n = 0 THEN 1 ELSE 10 * Pow10(n - 1)

\* m / 10^e without trailing zeros in the fraction
RECURSIVE Normalize(_, _)
Normalize(m, e) ==
    IF e > 0 /\ m % 10 = 0 THEN Normalize(m \div 10, e - 1)
    ELSE [inf |-> FALSE, m |-> m, e |-> e]

IntFloat(n) == [inf |-> FALSE, m |-> n, e |-> 0]

\* first index j >= i of text that holds no digit (Len(text) + 1 if none)
DigitRunEnd(text, i) ==
    CHOOSE j \in i..(Len(text) + 1) :
        /\ j > Len(text) \/ ~IsDigit(text[j])
        /\ \A k \in i..(j - 1) : IsDigit(text[k])

\* first index j >= i of text[i..e-1] that holds no "0" (e if none)
RECURSIVE SkipZeros(_, _, _)
SkipZeros(text, i, e) ==
    IF i < e /\ text[i] = "0" THEN SkipZeros(text, i + 1, e) ELSE i

\* the number written by the digits text[i..e-1]
RECURSIVE DigitsValue(_, _, _)
DigitsValue(text, i, e) ==
    IF i >= e THEN 0
    ELSE 10 * DigitsValue(text, i, e - 1) + DigitVal(text[e - 1])

\* int(token) for the digit run text[i..e-1].  A Python int is unbounded: it is
\* kept as its canonical decimal digits (no leading zeros).
IntOf(text, i, e) ==
    LET s == SkipZeros(text, i, e)
    IN  IF s = e THEN <<"0">> ELSE SubSeq(text, s, e - 1)

\* the Python test  n in ints  for an int n >= 0 and a list of ints
IntIn(n, ints) == \E k \in DOMAIN ints : ints[k] = IntToStr(n)

\* float(token) for the token text[i..e-1] of the form digits[.digits]
FloatOf(text, i, e) ==
    LET d == DigitRunEnd(text, i)
        s == SkipZeros(text, i, d)
    IN  IF d - s >= FloatOverflowDigits THEN Inf
        ELSE IF d >= e THEN IntFloat(DigitsValue(text, s, d))
        ELSE Normalize(DigitsValue(text, s, d) * Pow10(e - d - 1)
                           + DigitsValue(text, d + 1, e),
                       e - d - 1)

\* v * 10^scale as an integer, for scale >= v.e
Scaled(v, scale) == v.m * Pow10(scale - v.e)

\* abs(x - y) <= tol on floats; inf - y is inf
AbsDiffLeq(x, y, tol) ==
    /\ ~x.inf
    /\ ~y.inf
    /\ LET scale == Max(x.e, Max(y.e, tol.e))
           xs    == Scaled(x, scale)
           ys    == Scaled(y, scale)
       IN  (IF xs >= ys THEN xs - ys ELSE ys - xs) <= Scaled(tol, scale)

\* round(v) of a finite float: nearest integer, ties to the even one
Round(v) ==
    LET p == Pow10(v.e)
        q == v.m \div p
        r == v.m % p
    IN  IF 2 * r > p THEN q + 1
        ELSE IF 2 * r < p THEN q
        ELSE q + (q % 2)

\* num / den rounded to the nearest integer, ties to the even one
RoundDiv(num, den) ==
    LET q == num \div den
        r == num % den
    IN  IF 2 * r > den THEN q + 1
        ELSE IF 2 * r < den THEN q
        ELSE q + (q % 2)

\* round(num / den * 100, 1) as a float
RoundPct1(num, den) == Normalize(RoundDiv(num * 1000, den), 1)

\* ------------------------------------------------------------------------
\* SyracuseDataValidator._calculate_ground_truth
\* ------------------------------------------------------------------------

Rows == DOMAIN Player

RECURSIVE ColumnSum(_, _)
ColumnSum(column, n) ==
    IF n = 0 THEN 0 ELSE ColumnSum(column, n - 1) + column[n]

\* Series.idxmax(): the first row holding the maximum
idxmax(column, rows) ==
    CHOOSE i \in rows :
        \A j \in rows : column[j] < column[i] \/ (column[j] = column[i] /\ i <= j)

\* df.sort_values(column, ascending=False).head(n): the n rows with the largest
\* values, largest first (equal values in roster order)
RECURSIVE SortedHead(_, _, _)
SortedHead(column, rows, n) ==
    IF n = 0 \/ rows = {} THEN <<>>
    ELSE LET i == idxmax(column, rows)
         IN  <<i>> \o SortedHead(column, rows \ {i}, n - 1)

\* int((column >= threshold).sum())
CountAtLeast(column, threshold) ==
    Cardinality({i \in DOMAIN column : column[i] >= threshold})

\* row with the best Shooting_Pct among the rows, first on ties
BestShooter(rows) ==
    CHOOSE i \in rows :
        \A j \in rows :
            \/ Goals[j] * Shots[i] < Goals[i] * Shots[j]
            \/ (Goals[j] * Shots[i] = Goals[i] * Shots[j] /\ i <= j)

_calculate_ground_truth ==
    LET n         == Len(Player)
        qualified == {i \in Rows : Shots[i] >= 10}
        top3      == SortedHead(Goals, Rows, 3)
        base      ==
            [total_games       |-> team_stats.total_games,
             season_record     |-> team_stats.season_record,
             wins              |-> 16,
             losses            |-> 6,
             top_scorer        |-> Player[idxmax(Goals, Rows)],
             top_scorer_goals  |-> Goals[idxmax(Goals, Rows)],
             top_assist        |-> Player[idxmax(Assists, Rows)],
             top_assist_count  |-> Assists[idxmax(Assists, Rows)],
             top_points        |-> Player[idxmax(Points, Rows)],
             top_points_count  |-> Points[idxmax(Points, Rows)],
             total_goals       |-> ColumnSum(Goals, n),
             total_assists     |-> ColumnSum(Assists, n),
             total_points      |-> ColumnSum(Points, n),
             active_scorers    |-> CountAtLeast(Goals, 5),
             top3_shooting     |->
                 [k \in DOMAIN top3 |->
                     [player       |-> Player[top3[k]],
                      shooting_pct |->
                          IF Shots[top3[k]] > 0
                          THEN RoundPct1(Goals[top3[k]], Shots[top3[k]])
                          ELSE IntFloat(0)]],
             count_ge_10_goals |-> CountAtLeast(Goals, 10)]
    IN  IF qualified = {} THEN base
        ELSE [f \in (DOMAIN base) \cup {"best_shooter"} |->
                 IF f = "best_shooter" THEN Player[BestShooter(qualified)]
                 ELSE base[f]]

\* ------------------------------------------------------------------------
\* Text extraction: re.findall of the three patterns
\* ------------------------------------------------------------------------

\* \b at the gap before text[i] (i in 1..Len(text)+1)
WordBoundary(text, i) ==
    (i > 1 /\ IsWordChar(text[i - 1])) # (i <= Len(text) /\ IsWordChar(text[i]))

\* where a digit run may begin a match: \b followed by \d
TokenStart(text, i) ==
    i <= Len(text) /\ IsDigit(text[i]) /\ WordBoundary(text, i)

\* end of (?:\.\d+)? tried at j: the index behind ".digits", 0 if the group
\* cannot match there
FractionEnd(text, j) ==
    IF j + 1 <= Len(text) /\ text[j] = "." /\ IsDigit(text[j + 1])
    THEN DigitRunEnd(text, j + 1)
    ELSE 0

\* \b\d+(?:\.\d+)?\b tried at i: the index behind the match, 0 if none.  \d+ and
\* the group are greedy; a shorter digit run is followed by a digit and cannot
\* be completed, so the only backtracking left is dropping the group.
NumberMatchEnd(text, i) ==
    IF ~TokenStart(text, i) THEN 0
    ELSE LET j == DigitRunEnd(text, i)
             k == FractionEnd(text, j)
         IN  IF k # 0 /\ WordBoundary(text, k) THEN k
             ELSE IF WordBoundary(text, j) THEN j
             ELSE 0

\* faulty variant: the pattern \b\d+ without its closing \b
IntegerMatchEnd_NoClosingBoundary(text, i) ==
    IF ~TokenStart(text, i) THEN 0 ELSE DigitRunEnd(text, i)

\* \b\d+\b tried at i
IntegerMatchEnd(text, i) ==
    IF ~TokenStart(text, i) THEN 0
    ELSE LET j == DigitRunEnd(text, i)
         IN  IF WordBoundary(text, j) THEN j ELSE 0

RECURSIVE SkipSpace(_, _)
SkipSpace(text, i) ==
    IF i <= Len(text) /\ IsSpace(text[i]) THEN SkipSpace(text, i + 1) ELSE i

\* \b\d+(?:\.\d+)?\s*% tried at i: <<end of the numeric part, end of the match>>,
\* <<0, 0>> if none.  Dropping a group that matched leaves "." where \s*% must
\* match, so there is nothing to backtrack to.
PercentMatch(text, i) ==
    IF ~TokenStart(text, i) THEN <<0, 0>>
    ELSE LET j == DigitRunEnd(text, i)
             k == FractionEnd(text, j)
             n == IF k # 0 THEN k ELSE j
             s == SkipSpace(text, n)
         IN  IF s <= Len(text) /\ text[s] = "%" THEN <<n, s + 1>>
             ELSE <<0, 0>>

\* re.findall(r'\b\d+(?:\.\d+)?\b', text) converted by float()
RECURSIVE FindNumbers(_, _)
FindNumbers(text, i) ==
    IF i > Len(text) THEN <<>>
    ELSE LET e == NumberMatchEnd(text, i)
         IN  IF e # 0 THEN <<FloatOf(text, i, e)>> \o FindNumbers(text, e)
             ELSE FindNumbers(text, i + 1)

\* re.findall(r'\b\d+(?:\.\d+)?\s*%', text), each float(p.rstrip('%').strip())
RECURSIVE FindPercents(_, _)
FindPercents(text, i) ==
    IF i > Len(text) THEN <<>>
    ELSE LET m == PercentMatch(text, i)
         IN  IF m[2] # 0 THEN <<FloatOf(text, i, m[1])>> \o FindPercents(text, m[2])
             ELSE FindPercents(text, i + 1)

\* re.findall(r'\b\d+\b', text) converted by int()
RECURSIVE FindIntegers(_, _)
FindIntegers(text, i) ==
    IF i > Len(text) THEN <<>>
    ELSE LET e == IntegerMatchEnd(text, i)
         IN  IF e # 0 THEN <<IntOf(text, i, e)>> \o FindIntegers(text, e)
             ELSE FindIntegers(text, i + 1)

_extract_numbers_and_percents(text) ==
    [vals |-> FindNumbers(text, 1), pct_vals |-> FindPercents(text, 1)]

_extract_numbers_legacy(text) == FindIntegers(text, 1)

\* ------------------------------------------------------------------------
\* SyracuseDataValidator._score_strategic_response
\* ------------------------------------------------------------------------

action_terms ==
    <<
    <<"f", "o", "c", "u", "s">>,
    <<"i", "m", "p", "r", "o", "v", "e">>,
    <<"i", "n", "c", "r", "e", "a", "s", "e">>,
    <<"r", "e", "d", "u", "c", "e">>,
    <<"p", "r", "a", "c", "t", "i", "c", "e">>,
    <<"d", "r", "i", "l", "l">>,
    <<"s", "c", "h", "e", "m", "e">>,
    <<"s", "e", "t", " ", "p", "l", "a", "y">>,
    <<"a", "s", "s", "i", "g", "n">>,
    <<"r", "o", "t", "a", "t", "e">>,
    <<"s", "u", "b", "s", "t", "i", "t", "u", "t", "e">>,
    <<"o", "p", "t", "i", "m", "i", "z", "e">>,
    <<"w", "o", "r", "k", " ", "o", "n">>,
    <<"e", "m", "p", "h", "a", "s", "i", "z", "e">>,
    <<"t", "a", "r", "g", "e", "t">>,
    <<"a", "d", "j", "u", "s", "t">>,
    <<"p", "r", "e", "s", "s">>,
    <<"z", "o", "n", "e">>,
    <<"m", "a", "n", "-", "t", "o", "-", "m", "a", "n">>,
    <<"t", "r", "a", "n", "s", "i", "t", "i", "o", "n">>
    >>

TopScorerPhrase == <<"t", "o", "p", " ", "s", "c", "o", "r", "e", "r">>

LeadingScorerPhrase == <<"l", "e", "a", "d", "i", "n", "g", " ", "s", "c", "o", "r", "e", "r">>

\* [str(n).lower() for n in self.df['Player'].tolist() if str(n).strip()]
names == [i \in Rows |-> Lower(Player[i])]

\* sum(1 for n in names if n in text_l)
\* faulty variant: names counted only where no word character adjoins them
Mentions_WholeToken(text_l) ==
    Cardinality({i \in DOMAIN names :
        \E o \in 0..(Len(text_l) - Len(names[i])) :
            /\ SubSeq(text_l, o + 1, o + Len(names[i])) = names[i]
            /\ o = 0 \/ ~IsWordChar(text_l[o])
            /\ o + Len(names[i]) = Len(text_l)
                   \/ ~IsWordChar(text_l[o + Len(names[i]) + 1])})

Mentions(text_l) == Cardinality({i \in DOMAIN names : Contains(text_l, names[i])})

\* bool(re.search(r'\d', text_l))
ContainsNumbers(text_l) == \E i \in DOMAIN text_l : IsDigit(text_l[i])

Specificity(text_l) ==
    Min(5, 1 + Min(4, Mentions(text_l) \div 2)
             + (IF ContainsNumbers(text_l) THEN 1 ELSE 0))

Actionability(text_l) ==
    Max(1, Min(5, 1 + Cardinality({i \in DOMAIN action_terms :
                                       Contains(text_l, action_terms[i])})))

Plausibility(gt, text_l) ==
    IF /\ (Contains(text_l, TopScorerPhrase) \/ Contains(text_l, LeadingScorerPhrase))
       /\ ~Contains(text_l, Lower(gt.top_scorer))
    THEN 2
    ELSE 5

_score_strategic_response(gt, text) ==
    LET text_l == Lower(text)
    IN  [specificity   |-> Specificity(text_l),
         actionability |-> Actionability(text_l),
         plausibility  |-> Plausibility(gt, text_l)]

\* ------------------------------------------------------------------------
\* SyracuseDataValidator.validate_response
\* ------------------------------------------------------------------------

\* first 100 characters of the response are kept in llm_answer
AnswerLimit == 100

NoneValue == [type |-> "NoneType", value |-> None]

IntAnswer(n) == [type |-> "int", value |-> n]

StrAnswer(s) == [type |-> "str", value |-> s]

ListAnswer(l) == [type |-> "list", value |-> l]

\* an f-string note: its template and the values formatted into it
Note(fmt, args) == [fmt |-> fmt, args |-> args]

\* llm_response[:100] + "..." if len(llm_response) > 100 else llm_response
llm_answer(llm_response) ==
    IF Len(llm_response) > AnswerLimit
    THEN SubSeq(llm_response, 1, AnswerLimit) \o <<".", ".", ".">>
    ELSE llm_response

\* the result dict as built before the dispatch on question_type
InitialResult(llm_response, question_type, timestamp) ==
    [question_type   |-> question_type,
     timestamp       |-> timestamp,
     accuracy        |-> FALSE,
     error_type      |-> None,
     notes           |-> <<>>,
     expected_answer |-> NoneValue,
     llm_answer      |-> llm_answer(llm_response)]

\* faulty variant: result['expected_answer'] is never assigned
Outcome_NoExpected(r, expected_answer, accuracy, error_type, notes) ==
    [r EXCEPT !.accuracy   = accuracy,
              !.error_type = IF accuracy THEN None ELSE error_type,
              !.notes      = notes]

\* the outcome of one policy, written over the initial result
Outcome(r, expected_answer, accuracy, error_type, notes) ==
    [r EXCEPT !.expected_answer = expected_answer,
              !.accuracy        = accuracy,
              !.error_type      = IF accuracy THEN None ELSE error_type,
              !.notes           = notes]

\* f"{wins}-{losses}"
WinsLosses(gt) == IntToStr(gt.wins) \o <<"-">> \o IntToStr(gt.losses)

\* f"{expected_player} ({expected_count} goals)" and "... assists)"
PlayerAnswer(player, count, unit) ==
    player \o <<" ", "(">> \o IntToStr(count) \o <<" ">> \o unit \o <<")">>

GoalsUnit == <<"g", "o", "a", "l", "s">>

AssistsUnit == <<"a", "s", "s", "i", "s", "t", "s">>

\* 'Rubric-based (Specificity, Actionability, Plausibility >= 3)'
RubricAnswer ==
    <<"R", "u", "b", "r", "i", "c", "-", "b", "a", "s", "e", "d", " ", "(", "S", "p",
      "e", "c", "i", "f", "i", "c", "i", "t", "y", ",", " ", "A", "c", "t", "i", "o",
      "n", "a", "b", "i", "l", "i", "t", "y", ",", " ", "P", "l", "a", "u", "s", "i",
      "b", "i", "l", "i", "t", "y", " ", ">", "=", " ", "3", ")">>

\* expected in llm_response or f"{wins}-{losses}" in llm_response
SeasonRecordOk(gt, llm_response) ==
    \/ Contains(llm_response, gt.season_record)
    \/ Contains(llm_response, WinsLosses(gt))

\* legacy_ints and expected in legacy_ints
ExpectedIntOk(expected, legacy_ints) ==
    legacy_ints # <<>> /\ IntIn(expected, legacy_ints)

\* expected_player.lower() in response_lower
PlayerNamed(expected_player, response_lower) ==
    Contains(response_lower, Lower(expected_player))

\* tol = 0.5
ShootingTolerance == [inf |-> FALSE, m |-> 5, e |-> 1]

\* hits: expected entries whose name is in the response and whose percentage is
\* within tol of some candidate
ShootingHits(gt, llm_response) ==
    LET response_lower == Lower(llm_response)
        ex         == _extract_numbers_and_percents(llm_response)
        candidates == ex.pct_vals \o ex.vals
    IN  Cardinality({k \in DOMAIN gt.top3_shooting :
            /\ PlayerNamed(gt.top3_shooting[k].player, response_lower)
            /\ \E c \in DOMAIN candidates :
                   AbsDiffLeq(candidates[c], gt.top3_shooting[k].shooting_pct,
                              ShootingTolerance)})

\* any(int(round(v)) == int(count_ge_10) for v in vals) stops at the first v that
\* matches or that int(round(v)) cannot convert: the index of that v, 0 if none
RECURSIVE FirstDecisive(_, _, _)
FirstDecisive(vals, expected, k) ==
    IF k > Len(vals) THEN 0
    ELSE IF vals[k].inf THEN k
    ELSE IF Round(vals[k]) = expected THEN k
    ELSE FirstDecisive(vals, expected, k + 1)

\* faulty variant: all 3 required
ShootingOk_All(hits) == hits >= 3

\* require at least 2 of 3 correct to pass
ShootingOk(hits) == hits >= 2

\* faulty variant: all(...) in place of any(...)
OffensiveOk_All(vals, count_ge_10) ==
    vals # <<>> /\ \A k \in DOMAIN vals : ~vals[k].inf /\ Round(vals[k]) = count_ge_10

\* accept if any integer-rounded value equals expected
OffensiveOk(vals, count_ge_10) == FirstDecisive(vals, count_ge_10, 1) # 0

\* faulty variant: or in place of and
StrategicOk_Any(scores) ==
    \/ scores.specificity >= 3
    \/ scores.actionability >= 3
    \/ scores.plausibility >= 3

\* all three rubric scores >= 3
StrategicOk(scores) ==
    /\ scores.specificity >= 3
    /\ scores.actionability >= 3
    /\ scores.plausibility >= 3

\* the exception validate_response raises, None if it returns
validate_response_raises(gt, llm_response, question_type) ==
    IF question_type = "offensive_balance"
    THEN LET vals == _extract_numbers_and_percents(llm_response).vals
             k    == FirstDecisive(vals, gt.count_ge_10_goals, 1)
         IN  IF k # 0 /\ vals[k].inf THEN "OverflowError" ELSE None
    ELSE None

\* the dict validate_response returns
validate_response(gt, llm_response, question_type, timestamp) ==
    LET r              == InitialResult(llm_response, question_type, timestamp)
        legacy_ints    == _extract_numbers_legacy(llm_response)
        response_lower == Lower(llm_response)
    IN  CASE question_type = "season_record" ->
                 LET ok == SeasonRecordOk(gt, llm_response)
                 IN  Outcome(r, StrAnswer(gt.season_record), ok,
                             "incorrect_record",
                             IF ok THEN <<>>
                             ELSE <<Note("Expected {}", <<gt.season_record>>)>>)
          [] question_type = "total_games" ->
                 LET ok == ExpectedIntOk(gt.total_games, legacy_ints)
                 IN  Outcome(r, IntAnswer(gt.total_games), ok,
                             "incorrect_calculation",
                             IF ok THEN <<>>
                             ELSE <<Note("Expected {}, found numbers: {}",
                                         <<gt.total_games, legacy_ints>>)>>)
          [] question_type = "top_scorer" ->
                 LET ok == PlayerNamed(gt.top_scorer, response_lower)
                 IN  Outcome(r,
                             StrAnswer(PlayerAnswer(gt.top_scorer, gt.top_scorer_goals,
                                                    GoalsUnit)),
                             ok, "incorrect_player",
                             IF ~ok THEN <<Note("Expected {}", <<gt.top_scorer>>)>>
                             ELSE IF IntIn(gt.top_scorer_goals, legacy_ints)
                                  THEN <<Note("Correctly included goal count", <<>>)>>
                             ELSE <<>>)
          [] question_type = "team_goals" ->
                 LET ok == ExpectedIntOk(gt.total_goals, legacy_ints)
                 IN  Outcome(r, IntAnswer(gt.total_goals), ok,
                             "incorrect_calculation",
                             IF ok THEN <<>>
                             ELSE <<Note("Expected {}, found: {}",
                                         <<gt.total_goals, legacy_ints>>)>>)
          [] question_type = "top_assists" ->
                 LET ok == PlayerNamed(gt.top_assist, response_lower)
                 IN  Outcome(r,
                             StrAnswer(PlayerAnswer(gt.top_assist, gt.top_assist_count,
                                                    AssistsUnit)),
                             ok, "incorrect_player",
                             IF ok THEN <<>>
                             ELSE <<Note("Expected {}", <<gt.top_assist>>)>>)
          [] question_type = "shooting_analysis" ->
                 LET hits == ShootingHits(gt, llm_response)
                 IN  Outcome(r, ListAnswer(gt.top3_shooting), ShootingOk(hits),
                             "incorrect_shooting_analysis",
                             IF ShootingOk(hits) THEN <<>>
                             ELSE <<Note("Matched {}/3 expected player% entries (+-{})",
                                         <<hits, ShootingTolerance>>)>>)
          [] question_type = "offensive_balance" ->
                 LET vals == _extract_numbers_and_percents(llm_response).vals
                     ok   == OffensiveOk(vals, gt.count_ge_10_goals)
                 IN  Outcome(r, IntAnswer(gt.count_ge_10_goals), ok,
                             "incorrect_offensive_depth",
                             IF ok THEN <<>>
                             ELSE <<Note("Expected {}, found: {}",
                                         <<gt.count_ge_10_goals, vals>>)>>)
          [] question_type = "strategic_analysis" ->
                 LET scores == _score_strategic_response(gt, llm_response)
                 IN  Outcome(r,
                             StrAnswer(RubricAnswer), StrategicOk(scores),
                             "insufficient_rubric_scores",
                             <<Note("Scores: {}", <<scores>>)>>)
          [] OTHER -> r

\* ------------------------------------------------------------------------
\* ResultsAnalyzer
\* ------------------------------------------------------------------------

\* the dict add_result appends
TestRecord(timestamp, prompt_type, question, response, validation_result) ==
    [timestamp    |-> timestamp,
     prompt_type  |-> prompt_type,
     question     |-> question,
     llm_response |-> response,
     validation   |-> validation_result]

\* result['validation'].get('accuracy', False)
IsAccurate(rec) == rec.validation.accuracy

\* the counting loop of generate_summary_report over the first n records: the
\* insertion-ordered dict type_stats as a sequence of its items
RECURSIVE TypeStats(_, _)
TypeStats(recs, n) ==
    IF n = 0 THEN <<>>
    ELSE LET prev == TypeStats(recs, n - 1)
             rec  == recs[n]
             add  == IF IsAccurate(rec) THEN 1 ELSE 0
         IN  IF \E k \in DOMAIN prev : prev[k].ptype = rec.prompt_type
             THEN LET k == CHOOSE k \in DOMAIN prev : prev[k].ptype = rec.prompt_type
                  IN  [prev EXCEPT ![k].total = @ + 1, ![k].accurate = @ + add]
             ELSE Append(prev, [ptype |-> rec.prompt_type, total |-> 1, accurate |-> add])

\* f"{success_rate:.1f}" in tenths of a percent: (accurate / total) * 100 if
\* total else 0.0
SuccessRate(stats) ==
    IF stats.total # 0 THEN RoundDiv(stats.accurate * 1000, stats.total) ELSE 0

\* the records of recs[1..n] whose accuracy is the given one, in order
RECURSIVE Filter(_, _, _)
Filter(recs, n, accurate) ==
    IF n = 0 THEN <<>>
    ELSE IF IsAccurate(recs[n]) = accurate
         THEN Append(Filter(recs, n - 1, accurate), recs[n])
         ELSE Filter(recs, n - 1, accurate)

\* the dict error_types after the first n inaccurate records, as its items
RECURSIVE ErrorTypes(_, _)
ErrorTypes(recs, n) ==
    IF n = 0 THEN <<>>
    ELSE LET prev  == ErrorTypes(recs, n - 1)
             error == recs[n].validation.error_type
         IN  IF \E k \in DOMAIN prev : prev[k].error = error
             THEN LET k == CHOOSE k \in DOMAIN prev : prev[k].error = error
                  IN  [prev EXCEPT ![k].count = @ + 1]
             ELSE Append(prev, [error |-> error, count |-> 1])

\* the exception generate_summary_report raises, None if it returns:
\* error.replace('_', ' ') on a key that is None
generate_summary_report_raises(recs) ==
    LET inaccurate_results == Filter(recs, Len(recs), FALSE)
        error_types        == ErrorTypes(inaccurate_results, Len(inaccurate_results))
    IN  IF \E k \in DOMAIN error_types : error_types[k].error = None
        THEN "AttributeError"
        ELSE None

\* the report generate_summary_report returns, by its entries
generate_summary_report(recs) ==
    IF recs = <<>> THEN [kind |-> "No results to analyze."]
    ELSE LET type_stats         == TypeStats(recs, Len(recs))
             accurate_results   == Filter(recs, Len(recs), TRUE)
             inaccurate_results == Filter(recs, Len(recs), FALSE)
         IN  [kind        |-> "report",
              total_tests |-> Len(recs),
              rates       |-> [k \in DOMAIN type_stats |->
                                  [ptype    |-> type_stats[k].ptype,
                                   rate     |-> SuccessRate(type_stats[k]),
                                   accurate |-> type_stats[k].accurate,
                                   total    |-> type_stats[k].total]],
              successes   |-> [k \in 1..Min(3, Len(accurate_results)) |->
                                  accurate_results[k].question],
              errors      |-> ErrorTypes(inaccurate_results, Len(inaccurate_results))]

\* ------------------------------------------------------------------------
\* Inputs: question types and response texts
\* ------------------------------------------------------------------------

\* the question types validate_response dispatches on
QuestionTypes ==
    {"season_record", "total_games", "top_scorer", "team_goals", "top_assists",
     "shooting_analysis", "offensive_balance", "strategic_analysis"}

\* what a caller may type at "Enter question type: ": any string
QuestionTypeInputs == QuestionTypes \cup {"play_style"}

\* the prompt types of generate_syracuse_test_prompts that add_result is given
\* besides the question type itself
PromptTypeInputs == {"basic"}

\* the scenario texts of the specification

EightPlayers == <<"8", " ", "p", "l", "a", "y", "e", "r", "s", " ", "s", "c", "o", "r", "e", "d", " ", "1", "0", "+", " ", "g", "o", "a", "l", "s">>

NinePlayers == <<"9", " ", "p", "l", "a", "y", "e", "r", "s", " ", "s", "c", "o", "r", "e", "d", " ", "1", "0", "+", " ", "g", "o", "a", "l", "s">>

AboutTwelve == <<"A", "b", "o", "u", "t", " ", "1", "2", " ", "c", "o", "n", "t", "r", "i", "b", "u", "t", "o", "r", "s", " ", "m", "a", "d", "e", " ", "a", "n", " ", "i", "m", "p", "a", "c", "t">>

TyrrellLed == <<"M", "e", "a", "g", "h", "a", "n", " ", "T", "y", "r", "r", "e", "l", "l", " ", "l", "e", "d", " ", "w", "i", "t", "h", " ", "7", "0", " ", "g", "o", "a", "l", "s">>

AdamsonLed == <<"O", "l", "i", "v", "i", "a", " ", "A", "d", "a", "m", "s", "o", "n", " ", "l", "e", "d", " ", "t", "h", "e", " ", "t", "e", "a", "m", " ", "w", "i", "t", "h", " ", "5", "8", " ", "g", "o", "a", "l", "s">>

ShootingExact == <<"M", "e", "a", "g", "h", "a", "n", " ", "T", "y", "r", "r", "e", "l", "l", " ", "6", "0", ".", "9", "%", ",", " ", "O", "l", "i", "v", "i", "a", " ", "A", "d", "a", "m", "s", "o", "n", " ", "5", "3", ".", "2", "%", ",", " ", "E", "m", "m", "a", " ", "W", "a", "r", "d", " ", "4", "8", ".", "9", "%">>

ShootingTwoOfThree == <<"M", "e", "a", "g", "h", "a", "n", " ", "T", "y", "r", "r", "e", "l", "l", " ", "6", "0", ".", "9", "%", ",", " ", "O", "l", "i", "v", "i", "a", " ", "A", "d", "a", "m", "s", "o", "n", " ", "5", "3", ".", "2", "%", ",", " ", "E", "m", "m", "a", " ", "W", "o", "r", "d", " ", "4", "8", ".", "9", "%">>

GenericAdvice == <<"T", "h", "e", " ", "t", "e", "a", "m", " ", "p", "l", "a", "y", "e", "d", " ", "w", "e", "l", "l", " ", "a", "l", "l", " ", "s", "e", "a", "s", "o", "n">>

RecordText == <<"S", "y", "r", "a", "c", "u", "s", "e", " ", "f", "i", "n", "i", "s", "h", "e", "d", " ", "1", "6", "-", "6", " ", "a", "f", "t", "e", "r", " ", "2", "2", " ", "g", "a", "m", "e", "s">>

TeamGoalsText == <<"S", "y", "r", "a", "c", "u", "s", "e", " ", "s", "c", "o", "r", "e", "d", " ", "3", "1", "9", " ", "g", "o", "a", "l", "s">>

TeamGoalsDecimal == <<"a", "b", "o", "u", "t", " ", "3", "1", "9", ".", "5", " ", "g", "o", "a", "l", "s">>

\* a digit run long enough for float() to return inf
SeventyGoals == <<"O", "l", "i", "v", "i", "a", " ", "A", "d", "a", "m", "s", "o", "n", " ", "s", "c", "o", "r", "e", "d", " ", "7", "0", " ", "g", "o", "a", "l", "s">>

SwartzAndWards == <<"S", "a", "m", " ", "S", "w", "a", "r", "t", "z", " ", "m", "e", "t", " ", "E", "m", "m", "a", " ", "W", "a", "r", "d", "s">>

TenNames ==
    <<"M", "e", "a", "g", "h", "a", "n", " ", "T", "y", "r", "r", "e", "l", "l", ",", " ", "O", "l", "i", "v", "i", "a", " ", "A", "d", "a", "m", "s", "o", "n", ",", " ", "E", "m", "m", "a", " ", "W", "a", "r", "d", ",", " ", "S", "a", "m", " ", "S", "w", "a", "r", "t", ",", " ", "P", "a", "y", "t", "o", "n", " ", "R", "o", "w", "l", "e", "y", ",", " ", "M", "a", "d", "d", "y", " ", "B", "a", "x", "t", "e", "r", ",", " ", "S", "a", "v", "a", "n", "n", "a", "h", " ", "S", "w", "e", "i", "t", "z", "e", "r", ",", " ", "E", "m", "m", "a", " ", "M", "a", "d", "n", "i", "c", "k", ",", " ", "J", "o", "d", "y", " ", "C", "e", "r", "u", "l", "l", "o", " ", "a", "n", "d", " ", "G", "r", "a", "c", "e", " ", "B", "r", "i", "t", "t", "o", "n", ":", " ", "1", "0">>

HugeRun == [i \in 1..FloatOverflowDigits |-> "9"]

NineThenHuge == <<"9", " ">> \o HugeRun

Examples ==
    {EightPlayers, NinePlayers, AboutTwelve, TyrrellLed, AdamsonLed, ShootingExact,
     ShootingTwoOfThree, GenericAdvice, RecordText, TeamGoalsText, TeamGoalsDecimal,
     SeventyGoals, SwartzAndWards, TenNames, HugeRun, NineThenHuge}

\* all concatenations of at most n pieces
RECURSIVE Concats(_, _)
Concats(pieces, n) ==
    IF n = 0 THEN {<<>>}
    ELSE LET shorter == Concats(pieces, n - 1)
         IN  shorter \cup {s \o p : s \in shorter, p \in pieces}

\* responses made of numbers, "%" and separators
NumberPieces ==
    {<<"2", "2">>,
     <<"9">>,
     <<"8">>,
     <<".", "5">>,
     <<".">>,
     <<"%">>,
     <<" ">>,
     <<"a">>}

MaxNumberPieces == 3

\* responses made of player names with percentages, and coaching phrases
NamePieces ==
    {<<"M", "E", "A", "G", "H", "A", "N", " ", "T", "Y", "R", "R", "E", "L", "L", " ", "6", "0", ".", "9", "%", " ">>,
     <<"o", "l", "i", "v", "i", "a", " ", "a", "d", "a", "m", "s", "o", "n", " ", "5", "3", ".", "7", " ">>,
     <<"E", "m", "m", "a", " ", "W", "a", "r", "d", " ", "4", "8", ".", "3", "%", " ">>,
     <<"E", "m", "m", "a", " ", "W", "o", "r", "d", " ", "4", "8", ".", "9", "%", " ">>,
     <<"f", "o", "c", "u", "s", " ", "a", "n", "d", " ", "i", "m", "p", "r", "o", "v", "e", " ">>,
     <<"l", "e", "a", "d", "i", "n", "g", " ", "s", "c", "o", "r", "e", "r", " ">>,
     <<"S", "a", "m", " ", "S", "w", "a", "r", "t", " ">>}

MaxNamePieces == 3

Texts ==
    Examples \cup Concats(NumberPieces, MaxNumberPieces)
             \cup Concats(NamePieces, MaxNamePieces)

\* the responses pasted in a session of the interactive menu
SessionTexts == {TyrrellLed, NinePlayers}

\* ------------------------------------------------------------------------
\* State
\* ------------------------------------------------------------------------

VARIABLES
    ground_truth,   \* SyracuseDataValidator.ground_truth
    results,        \* ResultsAnalyzer.results
    llm_response,   \* the response text of the last validate_response call
    question_type,  \* its question type
    result,         \* <<the dict it returned>>, <<>> before the first return
    report,         \* <<what generate_summary_report returned last>>, <<>> before
    extracted,      \* <<what _extract_numbers_and_percents returned last>>, or <<>>
    raised,         \* the exception that ended the program, None while it runs
    now             \* datetime.now(): the number of timestamps taken so far

vars ==
    <<ground_truth, results, llm_response, question_type, result, report, extracted,
      raised, now>>

\* timestamps taken in one run
MaxClock == 4

\* records added in one run
MaxResults == 2

\* SyracuseDataValidator() and ResultsAnalyzer() constructed, nothing called yet
Init ==
    /\ ground_truth = _calculate_ground_truth
    /\ results = <<>>
    /\ llm_response = <<>>
    /\ question_type = None
    /\ result = <<>>
    /\ report = <<>>
    /\ extracted = <<>>
    /\ raised = None
    /\ now = 0

\* faulty variant: shooting_analysis pops the last entry off the list it took from
\* self.ground_truth
ValidateResponse_PopsExpected(text, qtype) ==
    /\ raised = None
    /\ now < MaxClock
    /\ llm_response' = text
    /\ question_type' = qtype
    /\ raised' = validate_response_raises(ground_truth, text, qtype)
    /\ result' = IF raised' = None
                 THEN <<validate_response(ground_truth, text, qtype, now)>>
                 ELSE result
    /\ ground_truth' =
           IF qtype = "shooting_analysis" /\ ground_truth.top3_shooting # <<>>
           THEN [ground_truth EXCEPT !.top3_shooting = SubSeq(@, 1, Len(@) - 1)]
           ELSE ground_truth
    /\ now' = now + 1
    /\ UNCHANGED <<results, report, extracted>>

\* validator.validate_response(text, qtype)
ValidateResponse(text, qtype) ==
    /\ raised = None
    /\ now < MaxClock
    /\ llm_response' = text
    /\ question_type' = qtype
    /\ raised' = validate_response_raises(ground_truth, text, qtype)
    /\ result' = IF raised' = None
                 THEN <<validate_response(ground_truth, text, qtype, now)>>
                 ELSE result
    /\ now' = now + 1
    /\ UNCHANGED <<ground_truth, results, report, extracted>>

\* faulty variant: self.results.insert(0, ...) in place of append
AddResult_InsertFirst(prompt_type) ==
    /\ raised = None
    /\ now < MaxClock
    /\ Len(results) < MaxResults
    /\ result # <<>>
    /\ results' = <<TestRecord(now, prompt_type, question_type, llm_response,
                               result[1])>> \o results
    /\ now' = now + 1
    /\ UNCHANGED <<ground_truth, llm_response, question_type, result, report, extracted,
                   raised>>

\* analyzer.add_result(prompt_type, question_type, llm_response, result), as
\* validate_llm_response calls it with the dict validate_response returned
AddResult(prompt_type) ==
    /\ raised = None
    /\ now < MaxClock
    /\ Len(results) < MaxResults
    /\ result # <<>>
    /\ results' = Append(results,
                         TestRecord(now, prompt_type, question_type, llm_response,
                                    result[1]))
    /\ now' = now + 1
    /\ UNCHANGED <<ground_truth, llm_response, question_type, result, report, extracted,
                   raised>>

\* analyzer.generate_summary_report()
GenerateSummaryReport ==
    /\ raised = None
    /\ raised' = IF results = <<>> THEN None ELSE generate_summary_report_raises(results)
    /\ report' = IF raised' = None THEN <<generate_summary_report(results)>> ELSE report
    /\ UNCHANGED <<ground_truth, results, llm_response, question_type, result, extracted,
                   now>>

Next ==
    \/ \E text \in SessionTexts, qtype \in QuestionTypeInputs :
           ValidateResponse(text, qtype)
    \/ \E prompt_type \in PromptTypeInputs \cup {question_type} : AddResult(prompt_type)
    \/ GenerateSummaryReport

\* a session of the interactive menu: any interleaving of the three calls
Spec == Init /\ [][Next]_vars

\* one call, of validate_response or of _extract_numbers_and_percents, on any
\* text and question type of the model
InitValidate ==
    /\ ground_truth = _calculate_ground_truth
    /\ results = <<>>
    /\ llm_response \in Texts
    /\ question_type \in QuestionTypeInputs
    /\ result = <<>>
    /\ report = <<>>
    /\ extracted = <<>>
    /\ raised = None
    /\ now = 0

Validate ==
    /\ result = <<>>
    /\ extracted = <<>>
    /\ ValidateResponse(llm_response, question_type)

\* validator._extract_numbers_and_percents(llm_response) on its own
ExtractNumbersAndPercents ==
    /\ extracted = <<>>
    /\ result = <<>>
    /\ raised = None
    /\ extracted' = <<_extract_numbers_and_percents(llm_response)>>
    /\ UNCHANGED <<ground_truth, results, llm_response, question_type, result, report,
                   raised, now>>

NextValidate == Validate \/ ExtractNumbersAndPercents

SpecValidate == InitValidate /\ [][NextValidate]_vars

\* ------------------------------------------------------------------------
\* Properties
\* ------------------------------------------------------------------------

\* the last validate_response call returned result[1] for llm_response and
\* question_type
Returned == result # <<>> /\ raised = None

Asked(qtype, text) == Returned /\ question_type = qtype /\ llm_response = text

\* C1 as stated: the roster has 8 rows with Goals >= 10; for offensive_balance
\* "8 players scored 10+ goals" is accurate and "About 12 contributors made an
\* impact" is not.
C1_Original ==
    /\ ground_truth.count_ge_10_goals = 8
    /\ Asked("offensive_balance", EightPlayers) => result[1].accuracy
    /\ Asked("offensive_balance", AboutTwelve) => ~result[1].accuracy

\* C1 amended: the roster has 9 rows with Goals >= 10; for offensive_balance
\* "9 players scored 10+ goals" is accurate, "8 players scored 10+ goals" and
\* "About 12 contributors made an impact" are not.
C1_Amended ==
    /\ ground_truth.count_ge_10_goals = 9
    /\ Asked("offensive_balance", NinePlayers) => result[1].accuracy
    /\ Asked("offensive_balance", EightPlayers) => ~result[1].accuracy
    /\ Asked("offensive_balance", AboutTwelve) => ~result[1].accuracy

C1_Witness == Asked("offensive_balance", NinePlayers) /\ result[1].accuracy

ErrorKinds ==
    {"incorrect_record", "incorrect_calculation", "incorrect_player",
     "incorrect_shooting_analysis", "incorrect_offensive_depth",
     "insufficient_rubric_scores"}

\* C2: validate_response never raises, and what it returns has an error_type of
\* the closed taxonomy and at least one note when accuracy is false, and
\* error_type None when accuracy is true, for every text and every question-type
\* string.
C2_Claim ==
    /\ raised = None
    /\ result # <<>> =>
          /\ ~result[1].accuracy =>
                result[1].error_type \in ErrorKinds /\ result[1].notes # <<>>
          /\ result[1].accuracy => result[1].error_type = None

\* C3: no value returned as a percentage by _extract_numbers_and_percents is also
\* returned in its numbers.
C3_Claim ==
    extracted # <<>> =>
        \A i \in DOMAIN extracted[1].pct_vals :
            \A j \in DOMAIN extracted[1].vals :
                extracted[1].vals[j] # extracted[1].pct_vals[i]

\* the expected integer of total_games and team_goals, as C4 states it
ExpectedInteger(qtype) ==
    IF qtype = "total_games" THEN 22 ELSE ColumnSum(Goals, Len(Goals))

IsDigitRunToken(text, i, e) ==
    /\ i < e
    /\ i = 1 \/ ~IsWordChar(text[i - 1])
    /\ e > Len(text) \/ ~IsWordChar(text[e])
    /\ \A k \in i..(e - 1) : IsDigit(text[k])

\* the digits text[i..e-1] write the integer n > 0, leading zeros allowed
WritesInteger(text, i, e, n) ==
    \E s \in i..(e - 1) :
        /\ \A k \in i..(s - 1) : text[k] = "0"
        /\ SubSeq(text, s, e - 1) = IntToStr(n)

OccursIgnoringCase(text, name) ==
    \E o \in 0..(Len(text) - Len(name)) :
        \A k \in DOMAIN name : LowerChar(text[o + k]) = LowerChar(name[k])

\* the three expected entries of shooting_analysis: name and percentage in tenths
ExpectedShooting ==
    <<[player |-> <<"M", "e", "a", "g", "h", "a", "n", " ", "T", "y", "r", "r", "e", "l", "l">>, tenths |-> 609],
      [player |-> <<"O", "l", "i", "v", "i", "a", " ", "A", "d", "a", "m", "s", "o", "n">>, tenths |-> 532],
      [player |-> <<"E", "m", "m", "a", " ", "W", "a", "r", "d">>, tenths |-> 489]>>

\* |v - tenths/10| <= 0.5 for an extracted value v = m / 10^e
WithinHalf(v, tenths) ==
    /\ ~v.inf
    /\ 10 * v.m - tenths * Pow10(v.e) <= 5 * Pow10(v.e)
    /\ tenths * Pow10(v.e) - 10 * v.m <= 5 * Pow10(v.e)

\* the expected entries named in text with some extracted percentage or number of
\* text within 0.5 of theirs
ExpectedHits(text) ==
    LET ex == _extract_numbers_and_percents(text)
    IN  Cardinality({k \in DOMAIN ExpectedShooting :
            /\ OccursIgnoringCase(text, ExpectedShooting[k].player)
            /\ \/ \E c \in DOMAIN ex.pct_vals :
                      WithinHalf(ex.pct_vals[c], ExpectedShooting[k].tenths)
               \/ \E c \in DOMAIN ex.vals :
                      WithinHalf(ex.vals[c], ExpectedShooting[k].tenths)})

GoalCountNote == Note("Correctly included goal count", <<>>)

NoNameNoTerm(text) ==
    /\ \A i \in DOMAIN Player : ~OccursIgnoringCase(text, Player[i])
    /\ \A i \in DOMAIN action_terms : ~OccursIgnoringCase(text, action_terms[i])

C8_Original == Returned => result[1].expected_answer # NoneValue

\* the expected answer of each question type validate_response knows
ExpectedAnswers ==
    [season_record      |-> StrAnswer(<<"1", "6", "-", "6">>),
     total_games        |-> IntAnswer(22),
     top_scorer         |-> StrAnswer(<<"M", "e", "a", "g", "h", "a", "n", " ", "T", "y", "r", "r", "e", "l", "l", " ", "(", "7", "0", " ", "g", "o", "a", "l", "s", ")">>),
     team_goals         |-> IntAnswer(319),
     top_assists        |-> StrAnswer(<<"E", "m", "m", "a", " ", "W", "a", "r", "d", " ", "(", "3", "7", " ", "a", "s", "s", "i", "s", "t", "s", ")">>),
     shooting_analysis  |->
         ListAnswer([k \in DOMAIN ExpectedShooting |->
             [player       |-> ExpectedShooting[k].player,
              shooting_pct |-> [inf |-> FALSE, m |-> ExpectedShooting[k].tenths, e |-> 1]]]),
     offensive_balance  |-> IntAnswer(9),
     strategic_analysis |-> StrAnswer(RubricAnswer)]

\* C8 amended: for each of the eight question types validate_response knows, the
\* result returned has its expected_answer set to that type's expected answer; for
\* any other question-type string it is left None.
C8_Amended ==
    Returned =>
        IF question_type \in DOMAIN ExpectedAnswers
        THEN /\ result[1].expected_answer = ExpectedAnswers[question_type]
             /\ result[1].expected_answer # NoneValue
        ELSE result[1].expected_answer = NoneValue

C8_Witness ==
    /\ Returned /\ question_type = "top_assists"
    /\ result[1].expected_answer = ExpectedAnswers.top_assists

\* generate_summary_report returned a report on a non-empty record list
Reported == report # <<>> /\ report[1].kind = "report"

\* the records the last report was made from
ReportedRecords == SubSeq(results, 1, report[1].total_tests)

RECURSIVE SumCounts(_, _)
SumCounts(entries, n) ==
    IF n = 0 THEN 0 ELSE SumCounts(entries, n - 1) + entries[n].count

\* C9: whatever validate_response results were added, generate_summary_report
\* completes, and the occurrence counts of its error-kind table sum to the number
\* of records whose accuracy is false.
C9_Claim ==
    /\ raised # "AttributeError"
    /\ Reported =>
          SumCounts(report[1].errors, Len(report[1].errors)) =
              Cardinality({k \in DOMAIN ReportedRecords :
                               ~ReportedRecords[k].validation.accuracy})

\* C10: whatever records were added, generate_summary_report completes and lists
\* every distinct prompt_type once, in order of first appearance, with total the
\* number of records of the type and accurate the number of accurate ones among
\* them, and the rate accurate/total*100 to one decimal; an empty record list
\* gives "No results to analyze.".
C10_Claim ==
    /\ raised # "AttributeError"
    /\ report # <<>> /\ results = <<>> => report[1].kind = "No results to analyze."
    /\ Reported =>
          LET recs  == ReportedRecords
              rates == report[1].rates
              of(t) == {k \in DOMAIN recs : recs[k].prompt_type = t}
              first(t) == CHOOSE k \in of(t) : \A j \in of(t) : k <= j
          IN  /\ {rates[k].ptype : k \in DOMAIN rates} =
                     {recs[k].prompt_type : k \in DOMAIN recs}
              /\ \A i, j \in DOMAIN rates :
                     i < j => /\ rates[i].ptype # rates[j].ptype
                              /\ first(rates[i].ptype) < first(rates[j].ptype)
              /\ \A i \in DOMAIN rates :
                     /\ rates[i].total = Cardinality(of(rates[i].ptype))
                     /\ rates[i].accurate =
                            Cardinality({k \in of(rates[i].ptype) :
                                             recs[k].validation.accuracy})
                     /\ rates[i].total > 0
                     /\ 2 * rates[i].total * rates[i].rate - 2000 * rates[i].accurate
                            \in (-rates[i].total)..rates[i].total

\* a step that adds a record: the list grows by one at its end, the records before
\* it are as they were, and the new record holds the arguments of the call
AppendsOne ==
    /\ Len(results') = Len(results) + 1
    /\ SubSeq(results', 1, Len(results)) = results
    /\ results'[Len(results')].timestamp = now
    /\ results'[Len(results')].question = question_type
    /\ results'[Len(results')].llm_response = llm_response
    /\ results'[Len(results')].validation = result[1]

\* the records are in call order: each was stamped before the next and before now
InCallOrder ==
    /\ \A i, j \in DOMAIN results : i < j => results[i].timestamp < results[j].timestamp
    /\ \A i \in DOMAIN results : results[i].timestamp < now

\* C11: every step either leaves the result list as it is or appends one record
\* at its end without touching the earlier ones; a step that returns a validation
\* result, returns a report or raises leaves the list as it is; so the list holds
\* the records added, in call order.
C11_AppendOnly ==
    /\ []InCallOrder
    /\ [][/\ results' = results \/ AppendsOne
          /\ (result' # result \/ report' # report \/ raised' # raised)
                 => results' = results]_vars

C11_Witness ==
    /\ Len(results) = 2
    /\ results[1].validation # results[2].validation
    /\ report # <<>>

\* two results equal in every field except timestamp
SameButTimestamp(r, s) == [r EXCEPT !.timestamp = 0] = [s EXCEPT !.timestamp = 0]

\* the results of earlier validate_response calls that are still at hand: those
\* stored in the records, with the text and question type they were returned for
EarlierCalls ==
    {[text |-> results[i].llm_response, qtype |-> results[i].question,
      returned |-> results[i].validation] : i \in DOMAIN results}

\* C12: whatever calls happened in between, two validate_response calls with the
\* same text and question type return results equal in every field except
\* timestamp, and no call changes the ground truth built at construction.
C12_HistoryIndependent ==
    /\ [](\A c \in EarlierCalls :
              /\ \A d \in EarlierCalls :
                     c.text = d.text /\ c.qtype = d.qtype
                         => SameButTimestamp(c.returned, d.returned)
              /\ Returned /\ c.text = llm_response /\ c.qtype = question_type
                     => SameButTimestamp(c.returned, result[1]))
    /\ [][ground_truth' = ground_truth]_vars

C12_Witness ==
    /\ Returned
    /\ report # <<>>
    /\ \E c \in EarlierCalls :
           /\ c.text = llm_response
           /\ c.qtype = question_type
           /\ result[1].timestamp >= c.returned.timestamp + 3

\* name occurs in text, ignoring case, with no word character before or after it
OccursAsToken(text, name) ==
    \E o \in 0..(Len(text) - Len(name)) :
        /\ \A k \in DOMAIN name : LowerChar(text[o + k]) = LowerChar(name[k])
        /\ o = 0 \/ ~IsWordChar(text[o])
        /\ o + Len(name) = Len(text) \/ ~IsWordChar(text[o + Len(name) + 1])

\* min(5, 1 + min(4, floor(k/2)) + d), d being 1 iff text holds a digit
SpecificityOf(k, text) ==
    LET d == IF \E i \in DOMAIN text : text[i] \in Range(DigitChars) THEN 1 ELSE 0
        b == IF k \div 2 < 4 THEN k \div 2 ELSE 4
    IN  IF 1 + b + d < 5 THEN 1 + b + d ELSE 5

\* the specificity score of the last strategic_analysis result
ScoredSpecificity == result[1].notes[1].args[1].specificity

\* C13 as stated: the specificity score is min(5, 1 + min(4, floor(k/2)) + d) with
\* k the number of roster names that occur in the text as whole tokens, ignoring
\* case, and it is in 1..5.
C13_Original ==
    Returned /\ question_type = "strategic_analysis" =>
        /\ ScoredSpecificity =
               SpecificityOf(Cardinality({i \in DOMAIN Player :
                                              OccursAsToken(llm_response, Player[i])}),
                             llm_response)
        /\ ScoredSpecificity \in 1..5

\* C13 amended: the specificity score is min(5, 1 + min(4, floor(k/2)) + d) with k
\* the number of roster names that occur in the text as substrings, ignoring case,
\* whether or not as whole tokens, and it is in 1..5.
C13_Amended ==
    Returned /\ question_type = "strategic_analysis" =>
        /\ ScoredSpecificity =
               SpecificityOf(Cardinality({i \in DOMAIN Player :
                                              OccursIgnoringCase(llm_response, Player[i])}),
                             llm_response)
        /\ ScoredSpecificity \in 1..5

C13_Witness ==
    /\ Asked("strategic_analysis", SwartzAndWards)
    /\ ScoredSpecificity = 2
    /\ \A i \in DOMAIN Player : ~OccursAsToken(llm_response, Player[i])

\* the extracted number v = m / 10^e rounds to the integer n: it is within 1/2 of
\* n, a tie going to the even integer as round() decides it
RoundsTo(v, n) ==
    /\ ~v.inf
    /\ LET twice == 2 * (v.m - n * Pow10(v.e))
           dist  == IF twice < 0 THEN -twice ELSE twice
       IN  dist < Pow10(v.e) \/ (dist = Pow10(v.e) /\ n % 2 = 0)

\* C14: for offensive_balance and every text the call returns a result whose
\* accuracy is true iff some number extracted from the text rounds to 9, the count
\* of roster rows with Goals >= 10; otherwise error_type is
\* incorrect_offensive_depth, also when the text holds no number.
C14_Claim ==
    question_type = "offensive_balance" /\ now > 0 =>
        /\ Returned
        /\ LET vals == FindNumbers(llm_response, 1)
           IN  /\ result[1].accuracy <=> \E k \in DOMAIN vals : RoundsTo(vals[k], 9)
               /\ ~result[1].accuracy =>
                      result[1].error_type = "incorrect_offensive_depth"

====
